---- MODULE Spec2Model ----
(***************************************************************************)
(* Model of the execution core of browser_use:                             *)
(*   - the message History and its token counter, as mutated by            *)
(*     Memory.create_procedural_memory (agent/memory/service.py);          *)
(*   - the SignalHandler pause / resume / exit controller (utils.py).      *)
(***************************************************************************)
EXTENDS Integers, Sequences, FiniteSets, TLC

(***************************************************************************)
(* Bounds of the model                                                     *)
(***************************************************************************)
MaxLen == 3          \* longest History built by appends under Spec
MaxStep == 2         \* last agent step explored
ScenarioLen == 4     \* longest History built under SpecScenario
NumTasks == 1        \* asyncio tasks on the event loop
MaxExitCalls == 2    \* calls of the exit callback explored where nothing limits them

(***************************************************************************)
(* Values                                                                  *)
(***************************************************************************)
\* MessageMetadata.message_type values (spec section 3: kind)
Kinds == {"init", "state", "action", "result", "memory"}

\* message payloads: only the content of a message is looked at
Contents == {"", "a"}

\* token counts of the messages appended under Spec
Sizes == {0, 1}

\* kinds of the messages appended under Spec: one exempt kind of each sort and
\* one kind that is not exempt (the code looks only at membership in {init, memory})
AppendKinds == {"init", "action", "memory"}

\* MessageMetadata
Metadata == [tokens : Sizes, message_type : AppendKinds]

\* token counts MessageManager._count_tokens may give the summary message
SummarySizes == {0, 15}

\* inputs of the scenario of spec section 8: init(50), action(30), result(40), action(20)
ScenarioMetadata ==
    {[tokens |-> 50, message_type |-> "init"], [tokens |-> 30, message_type |-> "action"],
     [tokens |-> 40, message_type |-> "result"], [tokens |-> 20, message_type |-> "action"]}
ScenarioContents == {"a", "b"}

\* inputs of the appends explored together with the step counter
StepMetadata == [tokens : {1}, message_type : {"init", "action"}]

\* steps between compactions (MemoryConfig.memory_interval)
interval == 2

\* Optional[str]
None == [isNone |-> TRUE, str |-> ""]
Some(s) == [isNone |-> FALSE, str |-> s]

\* Python truthiness of an Optional[str]
Truthy(o) == ~o.isNone /\ Len(o.str) > 0

ManagedMessage(content, metadata) ==
    [message |-> [content |-> content], metadata |-> metadata]

MessageMetadata(tokens, type) == [tokens |-> tokens, message_type |-> type]

\* what mem0.add can do: raise, or return a dict whose 'results' list holds
\* entries with or without a 'memory' text
ResultEntries == {None, Some(""), Some("summary text")}
ResultLists == {<<>>} \cup {<<e>> : e \in ResultEntries}
                 \cup {<<Some("summary text"), None>>, <<None, Some("summary text")>>}
SummarizerOutcomes ==
    {[raises |-> TRUE, results |-> <<>>]}
        \cup {[raises |-> FALSE, results |-> r] : r \in ResultLists}

\* asyncio tasks and the names they may carry
TaskIds == 1 .. NumTasks
NoTask == 0
TaskNames == {"footsteps", "Task-1"}

\* utils.py:60  the patterns used when none are given
DefaultPatterns == <<"step", "multi_act", "get_next_action">>

\* values given for interruptible_task_patterns: None, [] or a list
PatternInputs ==
    {[isNone |-> TRUE, list |-> <<>>], [isNone |-> FALSE, list |-> <<>>],
     [isNone |-> FALSE, list |-> <<"Task">>]}

VARIABLES
    messages,              \* message_manager.state.history.messages
    current_tokens,        \* message_manager.state.history.current_tokens
    n_steps,               \* the agent's step counter (current_step)
    last_compaction_step,  \* step of the last compaction that replaced messages
    last,                  \* record of the most recent History operation; calls
                           \* counts its invocations of mem0.add
    _exiting,              \* utils.py:14  module global
    ctrl_c_pressed,        \* loop.ctrl_c_pressed
    waiting_for_input,     \* loop.waiting_for_input
    config,                \* the SignalHandler's constructor arguments
    tasks,                 \* the tasks of the loop: name and status
    sigint_disposition,    \* what SIGINT does: "handler" (the loop's callback), "default"
                           \* (KeyboardInterrupt) or "windows_handler"
    original_handler,      \* wait_for_resume's local original_handler
    pc,                    \* "run"; "input" / "input_no_install" while wait_for_resume blocks
                           \* in input(); "exit_callback" while its exit callback runs;
                           \* "marked", "cancelled", "pause_callback" inside the
                           \* first-interrupt path of sigint_handler
    exit_calls,            \* number of calls of custom_exit_callback
    terminated,            \* os._exit(0) was called
    ev                     \* record of the most recent controller operation

memvars == <<messages, current_tokens, n_steps, last_compaction_step, last>>

sigvars == <<_exiting, ctrl_c_pressed, waiting_for_input, config, tasks,
             sigint_disposition, original_handler, pc, exit_calls, terminated, ev>>

vars == <<messages, current_tokens, n_steps, last_compaction_step, last,
          _exiting, ctrl_c_pressed, waiting_for_input, config, tasks,
          sigint_disposition, original_handler, pc, exit_calls, terminated, ev>>

(***************************************************************************)
(* Pure helpers                                                            *)
(***************************************************************************)
RECURSIVE SumTokens(_)
SumTokens(ms) ==
    IF ms = <<>> THEN 0
    ELSE Head(ms).metadata.tokens + SumTokens(Tail(ms))

\* variant: memory messages are not kept
IsKept_init_only(msg) == msg.metadata.message_type = "init"

\* service.py:103  message_type in {'init', 'memory'}
IsKept(msg) == msg.metadata.message_type \in {"init", "memory"}

\* service.py:107  len(msg.message.content) > 0
HasContent(msg) == Len(msg.message.content) > 0

IsCandidate(msg) == ~IsKept(msg) /\ HasContent(msg)

\* variant: the kept messages are collected newest first
new_messages_newest_first(all_messages) ==
    LET kept == SelectSeq(all_messages, IsKept)
    IN  [i \in 1 .. Len(kept) |-> kept[Len(kept) + 1 - i]]

\* variant: the candidates are kept as well
new_messages_all(all_messages) == all_messages

\* variant: nothing is kept
new_messages_none(all_messages) == <<>>

\* service.py:99-108, the two lists built by the loop
new_messages(all_messages) == SelectSeq(all_messages, IsKept)

messages_to_process(all_messages) == SelectSeq(all_messages, IsCandidate)

\* variant: a single candidate is summarized
NotEnough_lt1(to_process) == Len(to_process) < 1

\* service.py:111  if len(messages_to_process) <= 1: return
NotEnough(to_process) == Len(to_process) <= 1

\* variant: the candidates are handed over newest first
MessagesOf_newest_first(to_process) ==
    [i \in 1 .. Len(to_process) |-> to_process[Len(to_process) + 1 - i].message]

\* service.py:115  [m.message for m in messages_to_process]
MessagesOf(to_process) == [i \in 1 .. Len(to_process) |-> to_process[i].message]

\* variant: the first candidate's tokens are not subtracted
removed_tokens_skip_first(to_process) == SumTokens(Tail(to_process))

\* service.py:127
removed_tokens(to_process) == SumTokens(to_process)

\* variant: no try/except around mem0.add
_create_uncaught(outcome) ==
    IF outcome.raises
        THEN [raised |-> TRUE, value |-> None]
    ELSE IF Len(outcome.results) > 0
        THEN [raised |-> FALSE, value |-> outcome.results[1]]
    ELSE [raised |-> FALSE, value |-> None]

\* service.py:138-152  Memory._create: value returned, or the exception
\* that leaves it
_create(outcome) ==
    IF outcome.raises
        THEN [raised |-> FALSE, value |-> None]
    ELSE IF Len(outcome.results) > 0
        THEN [raised |-> FALSE, value |-> outcome.results[1]]
    ELSE [raised |-> FALSE, value |-> None]

\* variant: if memory_content is None: return
Failed_none_only(memory_content) == memory_content.isNone

\* service.py:117  if not memory_content: return
Failed(memory_content) == ~Truthy(memory_content)

NoOutcome == [raises |-> FALSE, results |-> <<>>]

\* the record of an operation that did not reach the summarizer
NoCall(op) ==
    [op |-> op, called |-> FALSE, calls |-> 0, to_process |-> <<>>,
     mem0_messages |-> <<>>, mem0_step |-> 0, outcome |-> NoOutcome,
     memory_content |-> None, raised |-> FALSE]

(***************************************************************************)
(* Initial state: an empty History at step 0                               *)
(***************************************************************************)
MemInit ==
    /\ messages = <<>>
    /\ current_tokens = 0
    /\ n_steps = 0
    /\ last_compaction_step = 0
    /\ last = NoCall("init")

(***************************************************************************)
(* History.Append (spec section 4.1)                                       *)
(***************************************************************************)
add_message(content, metadata) ==
    /\ messages' = Append(messages, ManagedMessage(content, metadata))
    /\ current_tokens' = current_tokens + metadata.tokens
    /\ last' = NoCall("append")
    /\ UNCHANGED <<n_steps, last_compaction_step>>

AppendFrom(maxlen, contents, metadatas) ==
    /\ Len(messages) < maxlen
    /\ \E c \in contents, md \in metadatas : add_message(c, md)
    /\ UNCHANGED sigvars

AppendMessage == AppendFrom(MaxLen, Contents, Metadata)

ScenarioAppend == AppendFrom(ScenarioLen, ScenarioContents, ScenarioMetadata)

StepAppend == AppendFrom(MaxLen, Contents, StepMetadata)

\* the agent loop moves to its next step
AgentStep ==
    /\ n_steps < MaxStep
    /\ n_steps' = n_steps + 1
    /\ UNCHANGED <<messages, current_tokens, last_compaction_step, last>>
    /\ UNCHANGED sigvars

(***************************************************************************)
(* Memory.create_procedural_memory(current_step)   service.py:86-136       *)
(***************************************************************************)
create_procedural_memory(current_step) ==
    LET all_messages == messages
        keep == new_messages(all_messages)
        to_process == messages_to_process(all_messages)
    IN  IF NotEnough(to_process)
            THEN /\ last' = NoCall("noop")
                 /\ UNCHANGED <<messages, current_tokens, n_steps, last_compaction_step>>
        ELSE \E outcome \in SummarizerOutcomes :
            LET created == _create(outcome)
                memory_content == created.value
                call == [op |-> "failed", called |-> TRUE, calls |-> 1,
                         to_process |-> to_process,
                         mem0_messages |-> MessagesOf(to_process),
                         mem0_step |-> current_step, outcome |-> outcome,
                         memory_content |-> memory_content, raised |-> created.raised]
            IN  IF created.raised
                    THEN /\ last' = [call EXCEPT !.op = "raised"]
                         /\ UNCHANGED <<messages, current_tokens, n_steps, last_compaction_step>>
                ELSE IF Failed(memory_content)
                    THEN /\ last' = call
                         /\ UNCHANGED <<messages, current_tokens, n_steps, last_compaction_step>>
                ELSE \E memory_tokens \in SummarySizes :
                     /\ messages' = Append(keep, ManagedMessage(memory_content.str,
                                                     MessageMetadata(memory_tokens, "memory")))
                     /\ current_tokens' = (current_tokens - removed_tokens(to_process)) + memory_tokens
                     /\ last_compaction_step' = current_step
                     /\ last' = [call EXCEPT !.op = "compacted"]
                     /\ UNCHANGED n_steps

CreateProceduralMemory ==
    /\ create_procedural_memory(n_steps)
    /\ UNCHANGED sigvars

(***************************************************************************)
(* SignalHandler   utils.py:21-275                                         *)
(***************************************************************************)
\* variant: a controller operation empties the History
HistoryUntouched_cleared ==
    /\ messages' = <<>>
    /\ current_tokens' = 0
    /\ UNCHANGED <<n_steps, last_compaction_step, last>>

\* utils.py:21-275  SignalHandler holds the loop, its callbacks and its
\* patterns, and no reference to the agent or its message manager: none of
\* its methods reads or assigns history.messages or history.current_tokens
HistoryUntouched == UNCHANGED memvars

\* the record of a controller operation
Event(op) ==
    [op |-> op, current |-> NoTask, cancelled |-> {}, callbacks |-> <<>>,
     callback_raised |-> FALSE, raised |-> FALSE, after_resume |-> FALSE,
     failed |-> FALSE, from_running |-> FALSE,
     given |-> [isNone |-> TRUE, list |-> <<>>]]

\* variant: only None is replaced by the default patterns
PatternsOr_none_only(given) ==
    IF given.isNone THEN DefaultPatterns ELSE given.list

\* utils.py:60  interruptible_task_patterns or [...]
PatternsOr(given) ==
    IF given.isNone \/ Len(given.list) = 0 THEN DefaultPatterns ELSE given.list

\* utils.py:55-60  the attributes __init__ sets when it is given the
\* patterns  given
ConfigsOf(given) ==
    [interruptible_task_patterns : {PatternsOr(given)},
     exit_on_second_int : BOOLEAN,
     pause_callback : BOOLEAN,
     resume_callback : BOOLEAN,
     custom_exit_callback : BOOLEAN]

\* utils.py:34-68  SignalHandler.__init__ with _initialize_loop_state
Configs == UNION {ConfigsOf(g) : g \in PatternInputs}

Tasks == [name : TaskNames, status : {"pending", "cancelling", "done"}]

SigInit ==
    /\ _exiting = FALSE
    /\ ctrl_c_pressed = FALSE
    /\ waiting_for_input = FALSE
    /\ config \in Configs
    /\ tasks \in [TaskIds -> [name : TaskNames, status : {"pending"}]]
    /\ sigint_disposition = "default"
    /\ original_handler = "default"
    /\ pc = "run"
    /\ exit_calls = 0
    /\ terminated = FALSE
    /\ ev = Event("init")

\* the controller as it stands while only the History is explored
SigIdle ==
    /\ _exiting = FALSE
    /\ ctrl_c_pressed = FALSE
    /\ waiting_for_input = FALSE
    /\ config = [interruptible_task_patterns |-> DefaultPatterns,
                 exit_on_second_int |-> TRUE, pause_callback |-> FALSE,
                 resume_callback |-> FALSE, custom_exit_callback |-> FALSE]
    /\ tasks = [t \in TaskIds |-> [name |-> "step", status |-> "pending"]]
    /\ sigint_disposition = "handler"
    /\ original_handler = "handler"
    /\ pc = "run"
    /\ exit_calls = 0
    /\ terminated = FALSE
    /\ ev = Event("init")

\* Python's  pattern in task_name  on strings
PyIn(pattern, task_name) ==
    \E i \in 0 .. (Len(task_name) - Len(pattern)) :
        SubSeq(task_name, i + 1, i + Len(pattern)) = pattern

\* variant: every task is interruptible
Interruptible_any(task_name) == TRUE

\* variant: the name must equal a pattern
Interruptible_exact(task_name) ==
    \E k \in 1 .. Len(config.interruptible_task_patterns) :
        config.interruptible_task_patterns[k] = task_name

\* utils.py:206, 215  any(pattern in task_name for pattern in self.interruptible_task_patterns)
Interruptible(task_name) ==
    \E k \in 1 .. Len(config.interruptible_task_patterns) :
        PyIn(config.interruptible_task_patterns[k], task_name)

\* task.done()
Done(t) == tasks[t].status = "done"

\* asyncio.all_tasks(loop): the tasks of the loop that are not done
all_tasks == {t \in TaskIds : ~Done(t)}

\* variant: the current task is never cancelled
ToCancel_others_only(current_task) ==
    {t \in all_tasks : t # current_task /\ ~Done(t) /\ Interruptible(tasks[t].name)}

\* utils.py:199-217  the tasks _cancel_interruptible_tasks calls cancel() on
ToCancel(current_task) ==
    {t \in all_tasks : t # current_task /\ ~Done(t) /\ Interruptible(tasks[t].name)}
        \cup (IF /\ current_task # NoTask
                 /\ ~Done(current_task)
                 /\ Interruptible(tasks[current_task].name)
              THEN {current_task} ELSE {})

\* variant: no task is asked to cancel
_cancel_interruptible_tasks_none(current_task) == tasks' = tasks

\* task.cancel() on each of them: cancellation is requested, not awaited
_cancel_interruptible_tasks(current_task) ==
    tasks' = [t \in TaskIds |->
                IF t \in ToCancel(current_task)
                    THEN [tasks[t] EXCEPT !.status = "cancelling"]
                ELSE tasks[t]]

\* variant: the process ends only once no task is left cancelling
_handle_second_ctrl_c_waits_for_tasks(op, current_task) ==
    /\ IF ~_exiting
          THEN /\ _exiting' = TRUE
               /\ IF config.custom_exit_callback
                     THEN /\ exit_calls' = exit_calls + 1
                          /\ \E raises \in BOOLEAN :
                                ev' = [Event(op) EXCEPT !.current = current_task,
                                                        !.callbacks = <<"exit">>,
                                                        !.callback_raised = raises]
                     ELSE /\ exit_calls' = exit_calls
                          /\ ev' = [Event(op) EXCEPT !.current = current_task]
          ELSE /\ ev' = [Event(op) EXCEPT !.current = current_task]
               /\ UNCHANGED <<_exiting, exit_calls>>
    /\ terminated' = (\A t \in TaskIds : tasks[t].status # "cancelling")

\* variant: the exit callback is never called
_handle_second_ctrl_c_no_callback(op, current_task) ==
    /\ _exiting' = TRUE
    /\ exit_calls' = exit_calls
    /\ ev' = [Event(op) EXCEPT !.current = current_task]
    /\ terminated' = TRUE

\* utils.py:120-142  _handle_second_ctrl_c, entered from operation op of the
\* loop's handler (further signals wait until the handler is over)
_handle_second_ctrl_c(op, current_task) ==
    /\ IF ~_exiting
          THEN /\ _exiting' = TRUE
               /\ IF config.custom_exit_callback
                     THEN /\ exit_calls' = exit_calls + 1
                          /\ \E raises \in BOOLEAN :
                                ev' = [Event(op) EXCEPT !.current = current_task,
                                                        !.callbacks = <<"exit">>,
                                                        !.callback_raised = raises]
                     ELSE /\ exit_calls' = exit_calls
                          /\ ev' = [Event(op) EXCEPT !.current = current_task]
          ELSE /\ ev' = [Event(op) EXCEPT !.current = current_task]
               /\ UNCHANGED <<_exiting, exit_calls>>
    /\ terminated' = TRUE

\* variant: an exception of the pause callback leaves sigint_handler
PauseCallbackOutcome_uncaught(raises) ==
    [callback_raised |-> config.pause_callback /\ raises,
     raised |-> config.pause_callback /\ raises]

\* utils.py:171-177  the pause callback is called inside try/except Exception
PauseCallbackOutcome(raises) ==
    [callback_raised |-> config.pause_callback /\ raises, raised |-> FALSE]

\* variant: sigint_handler does not look at waiting_for_input
LetPauseHandleIt_never == FALSE

\* utils.py:157-160  ctrl_c_pressed and waiting_for_input: "let the pause
\* method handle it", sigint_handler returns
LetPauseHandleIt == ctrl_c_pressed /\ waiting_for_input

\* variant: a second interrupt exits whatever exit_on_second_int says
ExitOnSecondInterrupt_always == ctrl_c_pressed

\* utils.py:157, 163  ctrl_c_pressed and self.exit_on_second_int
ExitOnSecondInterrupt == ctrl_c_pressed /\ config.exit_on_second_int

\* utils.py:144-180  sigint_handler; current_task is asyncio.current_task(loop)
sigint_handler(current_task) ==
    IF _exiting
        THEN /\ terminated' = TRUE
             /\ ev' = [Event("sigint_handler") EXCEPT !.current = current_task]
             /\ UNCHANGED <<_exiting, ctrl_c_pressed, waiting_for_input, config, tasks,
                            sigint_disposition, original_handler, pc, exit_calls>>
    ELSE IF LetPauseHandleIt
        THEN /\ ev' = [Event("sigint_handler") EXCEPT !.current = current_task]
             /\ UNCHANGED <<_exiting, ctrl_c_pressed, waiting_for_input, config, tasks,
                            sigint_disposition, original_handler, pc, exit_calls,
                            terminated>>
    ELSE IF ExitOnSecondInterrupt
        THEN /\ _handle_second_ctrl_c("sigint_handler", current_task)
             /\ UNCHANGED <<ctrl_c_pressed, waiting_for_input, config, tasks,
                            sigint_disposition, original_handler, pc>>
    ELSE /\ ctrl_c_pressed' = TRUE
         /\ _cancel_interruptible_tasks(current_task)
         /\ \E raises \in BOOLEAN :
                ev' = [Event("sigint_handler") EXCEPT
                          !.current = current_task,
                          !.from_running = ~ctrl_c_pressed,
                          !.cancelled = ToCancel(current_task),
                          !.callbacks = IF config.pause_callback THEN <<"pause">> ELSE <<>>,
                          !.callback_raised = PauseCallbackOutcome(raises).callback_raised,
                          !.raised = PauseCallbackOutcome(raises).raised]
         /\ UNCHANGED <<_exiting, waiting_for_input, config, sigint_disposition,
                        original_handler, pc, exit_calls, terminated>>

\* the loop can run a signal callback: it is not blocked in the input() of a
\* wait_for_resume that runs on the loop's own (main) thread
LoopFree == pc = "run" \/ pc = "input_no_install"

\* utils.py:91  loop.add_signal_handler(SIGINT, lambda: self.sigint_handler())
SigintHandler ==
    /\ ~terminated
    /\ LoopFree
    /\ sigint_disposition = "handler"
    /\ \E current_task \in {NoTask} \cup all_tasks : sigint_handler(current_task)
    /\ HistoryUntouched

\* variant: the exit callback is called whether or not an exit has begun
sigterm_handler_unguarded ==
    /\ _exiting' = TRUE
    /\ IF config.custom_exit_callback
          THEN /\ exit_calls' = exit_calls + 1
               /\ \E raises \in BOOLEAN :
                     /\ ev' = [Event("sigterm_handler") EXCEPT
                                  !.callbacks = <<"exit">>,
                                  !.callback_raised = raises, !.raised = raises]
                     /\ terminated' = ~raises
          ELSE /\ exit_calls' = exit_calls
               /\ ev' = Event("sigterm_handler")
               /\ terminated' = TRUE

\* utils.py:182-197  sigterm_handler: the exit callback is called outside any
\* try, so its exception leaves the handler before os._exit(0)
sigterm_handler ==
    IF ~_exiting
        THEN /\ _exiting' = TRUE
             /\ IF config.custom_exit_callback
                   THEN /\ exit_calls' = exit_calls + 1
                        /\ \E raises \in BOOLEAN :
                              /\ ev' = [Event("sigterm_handler") EXCEPT
                                           !.callbacks = <<"exit">>,
                                           !.callback_raised = raises, !.raised = raises]
                              /\ terminated' = ~raises
                   ELSE /\ exit_calls' = exit_calls
                        /\ ev' = Event("sigterm_handler")
                        /\ terminated' = TRUE
    ELSE /\ terminated' = TRUE
         /\ ev' = Event("sigterm_handler")
         /\ UNCHANGED <<_exiting, exit_calls>>

\* utils.py:92  loop.add_signal_handler(SIGTERM, lambda: self.sigterm_handler())
SigtermHandler ==
    /\ ~terminated
    /\ LoopFree
    /\ sigint_disposition = "handler"
    /\ sigterm_handler
    /\ UNCHANGED <<ctrl_c_pressed, waiting_for_input, config, tasks,
                   sigint_disposition, original_handler, pc>>
    /\ HistoryUntouched

\* variant: the exception of a failed installation reaches the caller
register_uncaught(installs) ==
    /\ sigint_disposition' = IF installs THEN "handler" ELSE sigint_disposition
    /\ ev' = [Event("register") EXCEPT !.failed = ~installs, !.raised = ~installs]

\* utils.py:75-98  register on a Unix-like system: the loop's handlers are
\* installed, or installing raises and the exception is swallowed
register(installs) ==
    /\ sigint_disposition' = IF installs THEN "handler" ELSE sigint_disposition
    /\ ev' = [Event("register") EXCEPT !.failed = ~installs]

Register ==
    /\ ~terminated
    /\ pc = "run"
    /\ \E installs \in BOOLEAN : register(installs)
    /\ UNCHANGED <<_exiting, ctrl_c_pressed, waiting_for_input, config, tasks,
                   original_handler, pc, exit_calls, terminated>>
    /\ HistoryUntouched

\* utils.py:100-118  unregister on a Unix-like system: remove_signal_handler
\* leaves SIGINT with default_int_handler; add_signal_handler returned None,
\* so there is no original handler to restore; exceptions are logged
unregister ==
    \E removes \in BOOLEAN :
        sigint_disposition' = IF removes THEN "default" ELSE sigint_disposition

Unregister ==
    /\ ~terminated
    /\ pc = "run"
    /\ unregister
    /\ ev' = Event("unregister")
    /\ UNCHANGED <<_exiting, ctrl_c_pressed, waiting_for_input, config, tasks,
                   original_handler, pc, exit_calls, terminated>>
    /\ HistoryUntouched

\* variant: the flags of the loop are set only where the loop has none yet
_initialize_loop_state_if_absent ==
    /\ ctrl_c_pressed' = ctrl_c_pressed
    /\ waiting_for_input' = waiting_for_input
    /\ _exiting' = _exiting

\* utils.py:70-73  _initialize_loop_state: setattr of both flags on the loop;
\* the module global _exiting is not assigned
_initialize_loop_state ==
    /\ ctrl_c_pressed' = FALSE
    /\ waiting_for_input' = FALSE
    /\ _exiting' = _exiting

\* utils.py:34-73  a SignalHandler is constructed on the loop: __init__ with
\* _initialize_loop_state
Construct ==
    /\ ~terminated
    /\ pc = "run"
    /\ \E given \in PatternInputs :
          /\ config' \in ConfigsOf(given)
          /\ ev' = [Event("construct") EXCEPT !.given = given]
    /\ _initialize_loop_state
    /\ UNCHANGED <<tasks, sigint_disposition, original_handler, pc,
                   exit_calls, terminated>>
    /\ HistoryUntouched

\* utils.py:227-253  wait_for_resume up to the blocking input();
\* signal.signal raises ValueError outside the main thread
WaitForResumeEnter ==
    /\ ~terminated
    /\ pc = "run"
    /\ waiting_for_input' = TRUE
    /\ original_handler' = sigint_disposition
    /\ \E main_thread \in BOOLEAN :
          IF main_thread
              THEN /\ sigint_disposition' = "default"
                   /\ pc' = "input"
          ELSE /\ sigint_disposition' = sigint_disposition
               /\ pc' = "input_no_install"
    /\ ev' = Event("wait_for_resume")
    /\ UNCHANGED <<_exiting, ctrl_c_pressed, config, tasks, exit_calls, terminated>>
    /\ HistoryUntouched

\* variant: the finally block clears the flag and leaves the handler alone
RestoreHandler_flag_only ==
    /\ sigint_disposition' = sigint_disposition
    /\ waiting_for_input' = FALSE
    /\ ctrl_c_pressed' = ctrl_c_pressed

\* variant: the finally block clears ctrl_c_pressed as well
RestoreHandler_rearms ==
    /\ IF pc = "input_no_install"
          THEN UNCHANGED <<sigint_disposition, waiting_for_input>>
       ELSE /\ sigint_disposition' = original_handler
            /\ waiting_for_input' = FALSE
    /\ ctrl_c_pressed' = FALSE

\* utils.py:261-267  the finally block of wait_for_resume; signal.signal
\* raises here exactly when it raised on entry (same thread), and then the
\* flag is not cleared; ctrl_c_pressed is not assigned anywhere in
\* wait_for_resume
RestoreHandler ==
    /\ IF pc = "input_no_install"
          THEN UNCHANGED <<sigint_disposition, waiting_for_input>>
       ELSE /\ sigint_disposition' = original_handler
            /\ waiting_for_input' = FALSE
    /\ ctrl_c_pressed' = ctrl_c_pressed

\* utils.py:253-257, 261-267  input() returns: resume callback, then finally
WaitForResumeInput ==
    /\ ~terminated
    /\ pc \in {"input", "input_no_install"}
    /\ \E raises \in BOOLEAN :
          ev' = [Event("resume") EXCEPT
                    !.callbacks = IF config.resume_callback THEN <<"resume">> ELSE <<>>,
                    !.callback_raised = config.resume_callback /\ raises,
                    !.raised = config.resume_callback /\ raises]
    /\ RestoreHandler
    /\ pc' = "run"
    /\ UNCHANGED <<_exiting, config, tasks, original_handler,
                   exit_calls, terminated>>
    /\ HistoryUntouched

\* utils.py:258-260, 120-133  Ctrl+C during input() raises KeyboardInterrupt:
\* _handle_second_ctrl_c up to the call of the exit callback, which runs
\* while SIGINT still raises KeyboardInterrupt
WaitForResumeInterrupt ==
    /\ ~terminated
    /\ pc = "input"
    /\ IF ~_exiting
          THEN /\ _exiting' = TRUE
               /\ IF config.custom_exit_callback
                     THEN /\ exit_calls' = exit_calls + 1
                          /\ pc' = "exit_callback"
                          /\ terminated' = FALSE
                          /\ ev' = [Event("wait_for_resume_interrupt") EXCEPT
                                       !.callbacks = <<"exit">>]
                     ELSE /\ terminated' = TRUE
                          /\ ev' = Event("wait_for_resume_interrupt")
                          /\ UNCHANGED <<exit_calls, pc>>
          ELSE /\ terminated' = TRUE
               /\ ev' = Event("wait_for_resume_interrupt")
               /\ UNCHANGED <<_exiting, exit_calls, pc>>
    /\ UNCHANGED <<ctrl_c_pressed, waiting_for_input, config, tasks,
                   sigint_disposition, original_handler>>
    /\ HistoryUntouched

\* utils.py:131-142  the exit callback returns or raises an Exception, which
\* is caught; os._exit(0) follows
ExitCallbackReturns ==
    /\ ~terminated
    /\ pc = "exit_callback"
    /\ \E raises \in BOOLEAN :
          ev' = [Event("exit_callback_returns") EXCEPT !.callback_raised = raises]
    /\ terminated' = TRUE
    /\ UNCHANGED <<_exiting, ctrl_c_pressed, waiting_for_input, config, tasks,
                   sigint_disposition, original_handler, pc, exit_calls>>
    /\ HistoryUntouched

\* utils.py:131-135, 258-267  Ctrl+C while the exit callback runs: the
\* KeyboardInterrupt is not an Exception, so it leaves the callback,
\* _handle_second_ctrl_c (before os._exit) and, through the finally block,
\* wait_for_resume
ExitCallbackInterrupted ==
    /\ ~terminated
    /\ pc = "exit_callback"
    /\ ev' = [Event("exit_callback_interrupted") EXCEPT !.raised = TRUE]
    /\ RestoreHandler
    /\ pc' = "run"
    /\ UNCHANGED <<_exiting, config, tasks, original_handler,
                   exit_calls, terminated>>
    /\ HistoryUntouched

\* variant: reset clears the exit flag as well
reset_all ==
    /\ ctrl_c_pressed' = FALSE
    /\ waiting_for_input' = FALSE
    /\ _exiting' = FALSE

\* variant: reset clears only waiting_for_input
reset_waiting_only ==
    /\ ctrl_c_pressed' = ctrl_c_pressed
    /\ waiting_for_input' = FALSE
    /\ _exiting' = _exiting

\* utils.py:269-275  reset: the two flags of the loop; the module global
\* _exiting is not assigned
reset ==
    /\ ctrl_c_pressed' = FALSE
    /\ waiting_for_input' = FALSE
    /\ _exiting' = _exiting

Reset ==
    /\ ~terminated
    /\ pc = "run"
    /\ reset
    /\ ev' = [Event("reset") EXCEPT
                 !.after_resume = (ev.op = "resume" /\ ~ev.raised)]
    /\ UNCHANGED <<config, tasks, sigint_disposition, original_handler,
                   pc, exit_calls, terminated>>
    /\ HistoryUntouched

\* a task of the loop runs on: it finishes, or observes a requested
\* cancellation at its next suspension point
TaskRuns ==
    /\ ~terminated
    /\ pc = "run"
    /\ \E t \in all_tasks :
          tasks' = [tasks EXCEPT ![t].status = "done"]
    /\ ev' = Event("task_done")
    /\ UNCHANGED <<_exiting, ctrl_c_pressed, waiting_for_input, config,
                   sigint_disposition, original_handler, pc, exit_calls, terminated>>
    /\ HistoryUntouched

\* the loop creates a new task once an earlier one is done
TaskCreated ==
    /\ ~terminated
    /\ pc = "run"
    /\ \E t \in TaskIds, name \in TaskNames :
          /\ Done(t)
          /\ tasks' = [tasks EXCEPT ![t] = [name |-> name, status |-> "pending"]]
    /\ ev' = Event("create_task")
    /\ UNCHANGED <<_exiting, ctrl_c_pressed, waiting_for_input, config,
                   sigint_disposition, original_handler, pc, exit_calls, terminated>>
    /\ HistoryUntouched

Next ==
    \/ AppendMessage
    \/ CreateProceduralMemory

Init == MemInit /\ SigIdle

Spec == Init /\ [][Next]_vars

ScenarioNext ==
    \/ ScenarioAppend
    \/ CreateProceduralMemory

SpecScenario == Init /\ [][ScenarioNext]_vars

StepNext ==
    \/ StepAppend
    \/ AgentStep
    \/ CreateProceduralMemory

SpecSteps == Init /\ [][StepNext]_vars

\* appends of messages that differ in content, explored with the step counter
CandidateAppend == AppendFrom(MaxLen, ScenarioContents \cup {""}, StepMetadata)

SummarizerNext ==
    \/ CandidateAppend
    \/ AgentStep
    \/ CreateProceduralMemory

SpecSummarizer == Init /\ [][SummarizerNext]_vars

SigNext ==
    \/ SigintHandler
    \/ SigtermHandler
    \/ WaitForResumeEnter
    \/ WaitForResumeInput
    \/ WaitForResumeInterrupt
    \/ ExitCallbackReturns
    \/ ExitCallbackInterrupted
    \/ Register
    \/ Unregister
    \/ Construct
    \/ Reset
    \/ TaskRuns
    \/ TaskCreated

InitSignals == MemInit /\ SigInit

SpecSignals == InitSignals /\ [][SigNext]_vars

\* a History in use when the controller acts: the step's appends so far
HistoryInUse ==
    /\ messages \in
          {<<ManagedMessage("a", MessageMetadata(1, "init"))>>,
           <<ManagedMessage("a", MessageMetadata(1, "init")),
             ManagedMessage("a", MessageMetadata(1, "action"))>>}
    /\ current_tokens = SumTokens(messages)
    /\ n_steps = 1
    /\ last_compaction_step = 0
    /\ last = NoCall("append")

InitController == HistoryInUse /\ SigInit

SpecController == InitController /\ [][SigNext]_vars

(***************************************************************************)
(* The first-interrupt path of sigint_handler statement by statement.  The *)
(* handler runs on the loop's thread, so nothing else of the loop runs     *)
(* until it returns; the pause callback is the code that sees the states   *)
(* in between.                                                             *)
(***************************************************************************)
\* utils.py:153-167  none of the three early branches is taken;
\* self.loop.ctrl_c_pressed = True
FirstInterruptMark ==
    /\ ~terminated
    /\ pc = "run"
    /\ sigint_disposition = "handler"
    /\ ~_exiting
    /\ ~LetPauseHandleIt
    /\ ~ExitOnSecondInterrupt
    /\ ctrl_c_pressed' = TRUE
    /\ pc' = "marked"
    /\ \E current_task \in {NoTask} \cup all_tasks :
          ev' = [Event("sigint_handler") EXCEPT !.current = current_task,
                                                !.from_running = ~ctrl_c_pressed]
    /\ UNCHANGED <<_exiting, waiting_for_input, config, tasks, sigint_disposition,
                   original_handler, exit_calls, terminated>>
    /\ HistoryUntouched

\* utils.py:170  self._cancel_interruptible_tasks()
FirstInterruptCancel ==
    /\ pc = "marked"
    /\ _cancel_interruptible_tasks(ev.current)
    /\ ev' = [ev EXCEPT !.cancelled = ToCancel(ev.current)]
    /\ pc' = "cancelled"
    /\ UNCHANGED <<_exiting, ctrl_c_pressed, waiting_for_input, config,
                   sigint_disposition, original_handler, exit_calls, terminated>>
    /\ HistoryUntouched

\* utils.py:173-175  the pause callback is called
FirstInterruptCallback ==
    /\ pc = "cancelled"
    /\ config.pause_callback
    /\ ev' = [ev EXCEPT !.callbacks = <<"pause">>]
    /\ pc' = "pause_callback"
    /\ UNCHANGED <<_exiting, ctrl_c_pressed, waiting_for_input, config, tasks,
                   sigint_disposition, original_handler, exit_calls, terminated>>
    /\ HistoryUntouched

\* utils.py:173-180  the callback returns or raises (caught), or there is
\* none; sigint_handler returns
FirstInterruptReturns ==
    /\ \/ pc = "pause_callback"
       \/ pc = "cancelled" /\ ~config.pause_callback
    /\ \E raises \in BOOLEAN :
          ev' = [ev EXCEPT
                    !.callback_raised = PauseCallbackOutcome(raises).callback_raised,
                    !.raised = PauseCallbackOutcome(raises).raised]
    /\ pc' = "run"
    /\ UNCHANGED <<_exiting, ctrl_c_pressed, waiting_for_input, config, tasks,
                   sigint_disposition, original_handler, exit_calls, terminated>>
    /\ HistoryUntouched

\* utils.py:153-164  the interrupts that take one of the early branches
OtherInterrupt ==
    /\ _exiting \/ LetPauseHandleIt \/ ExitOnSecondInterrupt
    /\ SigintHandler

PauseNext ==
    \/ FirstInterruptMark
    \/ FirstInterruptCancel
    \/ FirstInterruptCallback
    \/ FirstInterruptReturns
    \/ OtherInterrupt
    \/ Register
    \/ Construct
    \/ Reset
    \/ TaskRuns
    \/ TaskCreated

SpecPause == InitSignals /\ [][PauseNext]_vars

(***************************************************************************)
(* The controller where platform.system() is 'Windows' (utils.py:61):      *)
(* register installs windows_handler with signal.signal, nothing is        *)
(* installed for SIGTERM.                                                  *)
(***************************************************************************)
\* utils.py:77-87, 93-98  register: signal.signal(SIGINT, windows_handler),
\* or it raises (not the main thread) and the exception is swallowed
register_windows(installs) ==
    /\ sigint_disposition' = IF installs THEN "windows_handler" ELSE sigint_disposition
    /\ ev' = [Event("register") EXCEPT !.failed = ~installs]

RegisterWindows ==
    /\ ~terminated
    /\ pc = "run"
    /\ \E installs \in BOOLEAN : register_windows(installs)
    /\ UNCHANGED <<_exiting, ctrl_c_pressed, waiting_for_input, config, tasks,
                   original_handler, pc, exit_calls, terminated>>
    /\ HistoryUntouched

\* utils.py:80-85  windows_handler: the exit callback is called outside any
\* try, then os._exit(0); an exception of the callback leaves the handler
\* into the code the main thread was running
windows_handler ==
    IF config.custom_exit_callback
        THEN /\ exit_calls' = exit_calls + 1
             /\ \E raises \in BOOLEAN :
                   /\ ev' = [Event("windows_handler") EXCEPT
                                !.callbacks = <<"exit">>,
                                !.callback_raised = raises, !.raised = raises]
                   /\ terminated' = ~raises
    ELSE /\ exit_calls' = exit_calls
         /\ ev' = Event("windows_handler")
         /\ terminated' = TRUE

\* Ctrl+C while windows_handler is the handler of SIGINT; Python runs it in
\* the main thread
WindowsHandler ==
    /\ ~terminated
    /\ sigint_disposition = "windows_handler"
    /\ exit_calls < MaxExitCalls
    /\ windows_handler
    /\ UNCHANGED <<_exiting, ctrl_c_pressed, waiting_for_input, config, tasks,
                   sigint_disposition, original_handler, pc>>
    /\ HistoryUntouched

\* utils.py:102-106, 117-118  unregister: the handler signal.signal returned
\* at registration (default_int_handler) is installed again, if there was a
\* registration; exceptions are logged
unregister_windows ==
    \E restores \in BOOLEAN :
        sigint_disposition' =
            IF restores /\ sigint_disposition = "windows_handler"
                THEN "default" ELSE sigint_disposition

UnregisterWindows ==
    /\ ~terminated
    /\ pc = "run"
    /\ unregister_windows
    /\ ev' = Event("unregister")
    /\ UNCHANGED <<_exiting, ctrl_c_pressed, waiting_for_input, config, tasks,
                   original_handler, pc, exit_calls, terminated>>
    /\ HistoryUntouched

WindowsNext ==
    \/ RegisterWindows
    \/ WindowsHandler
    \/ UnregisterWindows
    \/ WaitForResumeEnter
    \/ WaitForResumeInput
    \/ WaitForResumeInterrupt
    \/ ExitCallbackReturns
    \/ ExitCallbackInterrupted
    \/ Construct
    \/ Reset
    \/ TaskRuns
    \/ TaskCreated

SpecWindows == InitSignals /\ [][WindowsNext]_vars

(***************************************************************************)
(* An agent step and the controller on one event loop.  The step runs as   *)
(* task 1; create_procedural_memory and the append are synchronous code    *)
(* (service.py:85-86, no await), so the loop runs its signal callback, and *)
(* a task observes a requested cancellation, only between them.            *)
(***************************************************************************)
\* variant: the loop's callbacks and cancellations cut into synchronous code
AtAwait_anywhere == TRUE

\* the synchronous code of the step has returned control to the loop:
\* create_procedural_memory is not between service.py:133 and 134
AtAwait == last.op # "replaced"

\* task 1, the step, is still running (a requested cancellation has not yet
\* been observed)
StepRunning == ~terminated /\ tasks[1].status # "done"

StepAppends ==
    /\ StepRunning
    /\ AtAwait
    /\ StepAppend

\* service.py:99-133  create_procedural_memory up to the assignment of
\* history.messages
CompactionReplace ==
    LET to_process == messages_to_process(messages)
    IN  /\ StepRunning
        /\ AtAwait
        /\ ~NotEnough(to_process)
        /\ \E outcome \in SummarizerOutcomes, memory_tokens \in SummarySizes :
              LET created == _create(outcome)
              IN  /\ ~created.raised
                  /\ ~Failed(created.value)
                  /\ messages' = Append(new_messages(messages),
                                        ManagedMessage(created.value.str,
                                            MessageMetadata(memory_tokens, "memory")))
                  /\ last' = [op |-> "replaced", called |-> TRUE, calls |-> 1,
                              to_process |-> to_process,
                              mem0_messages |-> MessagesOf(to_process),
                              mem0_step |-> n_steps, outcome |-> outcome,
                              memory_content |-> created.value, raised |-> FALSE]
        /\ UNCHANGED <<current_tokens, n_steps, last_compaction_step>>
        /\ UNCHANGED sigvars

\* service.py:134-135  the two updates of history.current_tokens
CompactionTokens ==
    /\ StepRunning
    /\ last.op = "replaced"
    /\ current_tokens' = (current_tokens - removed_tokens(last.to_process))
                             + messages[Len(messages)].metadata.tokens
    /\ last_compaction_step' = n_steps
    /\ last' = [last EXCEPT !.op = "compacted"]
    /\ UNCHANGED <<messages, n_steps>>
    /\ UNCHANGED sigvars

\* service.py:111-119  the calls of create_procedural_memory that return early
CompactionReturnsEarly ==
    /\ StepRunning
    /\ AtAwait
    /\ CreateProceduralMemory
    /\ messages' = messages

\* the loop runs the SIGINT callback between two pieces of synchronous code
SigintAtAwait == AtAwait /\ SigintHandler

\* a task reaches an await and finishes, or observes its cancellation there
TaskAtAwait == AtAwait /\ TaskRuns

TaskCreatedAtAwait == AtAwait /\ TaskCreated

InterleavedNext ==
    \/ StepAppends
    \/ CompactionReplace
    \/ CompactionTokens
    \/ CompactionReturnsEarly
    \/ SigintAtAwait
    \/ TaskAtAwait
    \/ TaskCreatedAtAwait

SpecInterleaved == Init /\ [][InterleavedNext]_vars

(***************************************************************************)
(* Vocabulary of the properties, stated independently of the operators of  *)
(* the model above                                                         *)
(***************************************************************************)
Exempt(m) == m.metadata.message_type = "init" \/ m.metadata.message_type = "memory"

Eligible(m) == ~Exempt(m) /\ m.message.content # ""

ExemptSeq(ms) == SelectSeq(ms, Exempt)

EligibleSeq(ms) == SelectSeq(ms, Eligible)

RECURSIVE TotalTokens(_)
TotalTokens(ms) ==
    IF Len(ms) = 0 THEN 0
    ELSE ms[Len(ms)].metadata.tokens + TotalTokens(SubSeq(ms, 1, Len(ms) - 1))

\* index of the first eligible message of ms (Len(ms) + 1 when there is none)
FirstEligible(ms) ==
    IF \E i \in 1 .. Len(ms) : Eligible(ms[i])
        THEN CHOOSE i \in 1 .. Len(ms) :
                /\ Eligible(ms[i])
                /\ \A j \in 1 .. (i - 1) : ~Eligible(ms[j])
    ELSE Len(ms) + 1

\* the step just taken was a call of create_procedural_memory
IsCall(l) == l.op \in {"noop", "failed", "raised", "compacted"}

\* the summarizer produced a non-empty summary
SummarizerSucceeded(o) ==
    /\ ~o.raises
    /\ Len(o.results) > 0
    /\ ~o.results[1].isNone
    /\ o.results[1].str # ""

\* ms is some init messages followed by two or more eligible messages
InitThenCandidates(ms) ==
    \E n \in 0 .. Len(ms) :
        /\ \A i \in 1 .. n : ms[i].metadata.message_type = "init"
        /\ \A i \in (n + 1) .. Len(ms) : Eligible(ms[i])
        /\ Len(ms) - n >= 2

InitPrefix(ms) == SelectSeq(ms, LAMBDA m : m.metadata.message_type = "init")

Last(ms) == ms[Len(ms)]

\* the four messages of the scenario of spec section 8, for any contents
IsScenarioHistory(ms) ==
    /\ Len(ms) = 4
    /\ ms[1].metadata = [tokens |-> 50, message_type |-> "init"]
    /\ ms[2].metadata = [tokens |-> 30, message_type |-> "action"]
    /\ ms[3].metadata = [tokens |-> 40, message_type |-> "result"]
    /\ ms[4].metadata = [tokens |-> 20, message_type |-> "action"]

(***************************************************************************)
(* C1: after any sequence of appends and create_procedural_memory calls,   *)
(* current_tokens equals the sum of metadata.tokens over history.messages. *)
(* Stated as the claim states it; the code drops non-exempt messages with  *)
(* empty content without subtracting their tokens.                         *)
(***************************************************************************)
C1_TokensEqualSum == current_tokens = TotalTokens(messages)

(***************************************************************************)
(* C2: from a History of init messages followed by two or more eligible    *)
(* messages, a successful compaction leaves the init messages followed by  *)
(* one memory message carrying the summary, current_tokens is the init     *)
(* sizes plus the summary size, and the summarizer received exactly the    *)
(* eligible messages; [init(50), action(30), result(40), action(20)] with  *)
(* a summary of size 15 becomes [init(50), memory(15)] with 65 tokens.     *)
(***************************************************************************)
C2_ScenarioCompaction ==
    [][(last'.op = "compacted" /\ InitThenCandidates(messages)) =>
        LET inits == InitPrefix(messages)
            mem == Last(messages')
            cands == SubSeq(messages, Len(inits) + 1, Len(messages))
        IN  /\ messages' = inits \o <<mem>>
            /\ mem.metadata.message_type = "memory"
            /\ mem.message.content = last'.outcome.results[1].str
            /\ current_tokens' = TotalTokens(inits) + mem.metadata.tokens
            /\ last'.to_process = cands
            /\ last'.mem0_messages = [i \in 1 .. Len(cands) |-> cands[i].message]
            /\ (IsScenarioHistory(messages) /\ mem.metadata.tokens = 15) =>
                  /\ messages' = <<messages[1], mem>>
                  /\ mem.metadata = [tokens |-> 15, message_type |-> "memory"]
                  /\ current_tokens' = 65
                  /\ Len(last'.mem0_messages) = 3
    ]_vars

C2_Witness ==
    /\ last.op = "compacted"
    /\ Len(messages) = 2
    /\ messages[1].metadata = [tokens |-> 50, message_type |-> "init"]
    /\ messages[2].metadata = [tokens |-> 15, message_type |-> "memory"]
    /\ current_tokens = 65
    /\ Len(last.to_process) = 3
    /\ last.to_process[1].metadata = [tokens |-> 30, message_type |-> "action"]
    /\ last.to_process[2].metadata = [tokens |-> 40, message_type |-> "result"]
    /\ last.to_process[3].metadata = [tokens |-> 20, message_type |-> "action"]

(***************************************************************************)
(* C3: a call with two or more eligible candidates and a non-empty summary *)
(* strictly decreases the number of messages, and the new current_tokens   *)
(* is the old one minus the candidates' tokens plus the summary's tokens.  *)
(***************************************************************************)
C3_CompactionShrinks ==
    [][(/\ IsCall(last')
        /\ Len(EligibleSeq(messages)) >= 2
        /\ last'.called
        /\ SummarizerSucceeded(last'.outcome)) =>
        /\ Len(messages') < Len(messages)
        /\ Len(messages') = Len(ExemptSeq(messages)) + 1
        /\ Last(messages').metadata.message_type = "memory"
        /\ current_tokens' = (current_tokens - TotalTokens(EligibleSeq(messages)))
                                + Last(messages').metadata.tokens
    ]_vars

C3_Witness ==
    /\ last.op = "compacted"
    /\ Len(last.to_process) >= 2
    /\ TotalTokens(last.to_process) > 0
    /\ Len(messages) >= 2

(***************************************************************************)
(* C4: with at most one eligible candidate, create_procedural_memory       *)
(* changes neither history.messages nor current_tokens and does not call   *)
(* the summarizer.                                                         *)
(***************************************************************************)
C4_FewCandidatesNoOp ==
    [][(IsCall(last') /\ Len(EligibleSeq(messages)) <= 1) =>
        /\ messages' = messages
        /\ current_tokens' = current_tokens
        /\ ~last'.called
        /\ last'.mem0_messages = <<>>
    ]_vars

C4_Witness ==
    /\ last.op = "noop"
    /\ Len(EligibleSeq(messages)) = 1
    /\ Len(messages) >= 2

(***************************************************************************)
(* C5: no init or memory message is ever among the candidates handed to    *)
(* the summarizer, and every init or memory message present before a call  *)
(* is still present, in place, after it.                                   *)
(***************************************************************************)
C5_ExemptNeverCandidates ==
    [][IsCall(last') =>
        /\ \A i \in 1 .. Len(last'.to_process) : ~Exempt(last'.to_process[i])
        /\ Len(last'.mem0_messages) = Len(last'.to_process)
        /\ Len(ExemptSeq(messages')) >= Len(ExemptSeq(messages))
        /\ SubSeq(ExemptSeq(messages'), 1, Len(ExemptSeq(messages))) = ExemptSeq(messages)
    ]_vars

C5_Witness ==
    /\ last.op = "compacted"
    /\ Len(messages) = 2
    /\ messages[1].metadata.message_type = "memory"
    /\ messages[1].message.content = "summary text"
    /\ Len(last.to_process) = 2

(***************************************************************************)
(* C6: when the summarizer raises, returns no results or returns an empty  *)
(* summary, History is exactly as before: same messages, same order, same  *)
(* current_tokens.                                                         *)
(***************************************************************************)
C6_FailureLeavesHistory ==
    [][(IsCall(last') /\ last'.called /\ ~SummarizerSucceeded(last'.outcome)) =>
        /\ messages' = messages
        /\ current_tokens' = current_tokens
    ]_vars

C6_Witness ==
    /\ last.called
    /\ last.outcome = [raises |-> FALSE, results |-> <<Some("")>>]
    /\ Len(EligibleSeq(messages)) >= 2

(***************************************************************************)
(* C7: an exception raised by mem0.add is caught inside _create and        *)
(* treated as no memory produced; the call returns normally.               *)
(***************************************************************************)
C7_SummarizerExceptionCaught ==
    (last.called /\ last.outcome.raises) =>
        /\ ~last.raised
        /\ last.op = "failed"
        /\ last.memory_content = None

C7_Witness ==
    /\ last.called
    /\ last.outcome.raises
    /\ Len(last.mem0_messages) >= 2

(***************************************************************************)
(* C8: after a successful compaction the summary message stands where the  *)
(* earliest replaced candidate was: kept messages that preceded that       *)
(* candidate precede the summary, kept messages that followed it follow    *)
(* the summary.  Stated as the claim states it; the code appends the       *)
(* summary after every kept message.                                       *)
(***************************************************************************)
C8_SummaryAtEarliestCandidate ==
    [][last'.op = "compacted" =>
        LET first == FirstEligible(messages)
            before == ExemptSeq(SubSeq(messages, 1, first - 1))
            after == ExemptSeq(SubSeq(messages, first + 1, Len(messages)))
        IN  /\ Len(messages') = Len(before) + 1 + Len(after)
            /\ messages'[Len(before) + 1].metadata.message_type = "memory"
            /\ messages'[Len(before) + 1].message.content = last'.memory_content.str
            /\ messages' = before \o <<messages'[Len(before) + 1]>> \o after
    ]_vars

(***************************************************************************)
(* C9: a call of the compactor modifies History only when                  *)
(* current_step - last_compaction_step >= interval and at least two        *)
(* eligible messages exist.  Stated as the claim states it; the code has   *)
(* no step condition.                                                      *)
(***************************************************************************)
C9_CompactionOnlyWhenDue ==
    [][(IsCall(last') /\ (messages' # messages \/ current_tokens' # current_tokens)) =>
        /\ n_steps - last_compaction_step >= interval
        /\ Len(EligibleSeq(messages)) >= 2
    ]_vars

\* name contains p as a substring
Contains(name, p) ==
    \E i \in 1 .. (Len(name) + 1), j \in 0 .. Len(name) : SubSeq(name, i, j) = p

\* name contains at least one configured pattern
MatchesAPattern(name) ==
    \E k \in DOMAIN config.interruptible_task_patterns :
        Contains(name, config.interruptible_task_patterns[k])

\* no interrupt handled yet, not exiting
Running == ~terminated /\ ~_exiting /\ ~ctrl_c_pressed

(***************************************************************************)
(* C10: a first interrupt received while Running sets ctrl_c_pressed and   *)
(* requests cancellation of exactly the not-yet-finished tasks, the        *)
(* current task included, whose name contains a configured pattern; every  *)
(* other task is left as it was.                                           *)
(***************************************************************************)
C10_FirstInterruptCancelsMatching ==
    [][(ev'.op = "sigint_handler" /\ Running) =>
        LET matching == {t \in TaskIds : tasks[t].status # "done"
                                          /\ MatchesAPattern(tasks[t].name)}
        IN  /\ ctrl_c_pressed'
            /\ ~terminated'
            /\ ~_exiting'
            /\ ev'.cancelled = matching
            /\ \A t \in matching :
                  tasks'[t] = [name |-> tasks[t].name, status |-> "cancelling"]
            /\ \A t \in TaskIds \ matching : tasks'[t] = tasks[t]
    ]_vars

C10_Witness ==
    /\ ev.op = "sigint_handler"
    /\ ctrl_c_pressed
    /\ ~terminated
    /\ config.exit_on_second_int
    /\ ev.current # NoTask
    /\ ev.current \in ev.cancelled
    /\ tasks[ev.current].name = "footsteps"
    /\ tasks[ev.current].status = "cancelling"

\* the run state of the controller, read off the exit flag and the flags of
\* the loop
RunState ==
    IF _exiting THEN "Exiting"
    ELSE IF waiting_for_input THEN "AwaitingResume"
    ELSE IF ctrl_c_pressed THEN "Paused"
    ELSE "Running"

\* the step does nothing of a pause: no cancellation, no pause callback
NoPause ==
    /\ ev'.cancelled = {}
    /\ tasks' = tasks
    /\ ctrl_c_pressed' = ctrl_c_pressed
    /\ \A k \in 1 .. Len(ev'.callbacks) : ev'.callbacks[k] # "pause"

\* the step calls the exit callback if one is registered
CallsRegisteredExit ==
    IF config.custom_exit_callback
        THEN exit_calls' = exit_calls + 1 /\ ev'.callbacks = <<"exit">>
    ELSE exit_calls' = exit_calls /\ ev'.callbacks = <<>>

(***************************************************************************)
(* C11 as stated: a second interrupt while Paused (through sigint_handler) *)
(* or while AwaitingResume (the KeyboardInterrupt of input()) calls the    *)
(* registered exit callback and ends the process (at once, or as soon as   *)
(* the callback it started is over), and does nothing of a pause.          *)
(***************************************************************************)
C11_SecondInterruptExits ==
    [][((ev'.op = "sigint_handler" /\ RunState = "Paused")
            \/ (ev'.op = "wait_for_resume_interrupt" /\ RunState = "AwaitingResume"))
        => /\ CallsRegisteredExit
           /\ terminated' \/ pc' = "exit_callback"
           /\ NoPause
    ]_vars

(***************************************************************************)
(* C11 as amended: with exit_on_second_int set, a second interrupt handled *)
(* by sigint_handler while Paused calls the registered exit callback and   *)
(* ends the process; the KeyboardInterrupt of input() while AwaitingResume *)
(* calls the registered exit callback and the process ends when that       *)
(* callback returns or raises an Exception (at once when there is none);   *)
(* neither does anything of a pause.                                       *)
(***************************************************************************)
C11_SecondInterruptExitsWhenConfigured ==
    [][/\ (ev'.op = "sigint_handler" /\ RunState = "Paused" /\ config.exit_on_second_int)
            => (CallsRegisteredExit /\ terminated' /\ _exiting' /\ NoPause)
       /\ (ev'.op = "wait_for_resume_interrupt" /\ RunState = "AwaitingResume")
            => /\ CallsRegisteredExit
               /\ _exiting'
               /\ NoPause
               /\ IF config.custom_exit_callback
                     THEN ~terminated' /\ pc' = "exit_callback"
                  ELSE terminated'
       /\ ev'.op = "exit_callback_returns"
            => (terminated' /\ exit_calls' = exit_calls /\ NoPause)
    ]_vars

C11_Witness ==
    /\ ev.op = "sigint_handler"
    /\ ev.callbacks = <<"exit">>
    /\ exit_calls = 1
    /\ terminated
    /\ ctrl_c_pressed
    /\ ~waiting_for_input
    /\ config.exit_on_second_int

(***************************************************************************)
(* C12: over a whole run, whatever the order of second interrupts through  *)
(* sigint_handler, KeyboardInterrupts inside wait_for_resume (one arriving *)
(* while the exit callback is still running included) and terminate        *)
(* signals, the exit callback is called at most once.                      *)
(***************************************************************************)
C12_ExitCallbackAtMostOnce == exit_calls <= 1

C12_Witness ==
    /\ ev.op = "exit_callback_interrupted"
    /\ exit_calls = 1
    /\ _exiting
    /\ ~terminated
    /\ pc = "run"

(***************************************************************************)
(* C13: a terminate signal handled by sigterm_handler, whatever the run    *)
(* state and whatever the exit callback does, leaves the exit callback     *)
(* called at most once and the process terminated.                         *)
(***************************************************************************)
C13_TerminateAlwaysExits ==
    [][ev'.op = "sigterm_handler" =>
        /\ terminated'
        /\ exit_calls' <= 1
        /\ exit_calls' <= exit_calls + 1
    ]_vars

\* the step is one in which the exit callback has raised an exception
ExitCallbackRaised ==
    /\ ev'.callback_raised
    /\ \/ ev'.op = "exit_callback_returns"
       \/ ev'.op \in {"sigint_handler", "sigterm_handler"} /\ ev'.callbacks = <<"exit">>

(***************************************************************************)
(* C14: when the exit callback raises an exception, after a second         *)
(* interrupt (_handle_second_ctrl_c) or a terminate signal                 *)
(* (sigterm_handler), the exception does not leave the handler and the     *)
(* process terminates.                                                     *)
(***************************************************************************)
C14_ExitCallbackExceptionContained ==
    [][ExitCallbackRaised => (~ev'.raised /\ terminated')]_vars

(***************************************************************************)
(* C15: when the resume callback raises an exception during                *)
(* wait_for_resume, the exception does not propagate: wait_for_resume      *)
(* returns normally to its caller.                                         *)
(***************************************************************************)
C15_ResumeCallbackExceptionContained ==
    [][(ev'.op = "resume" /\ ev'.callback_raised) => ~ev'.raised]_vars

(***************************************************************************)
(* C16: when the pause callback raises an exception during a first         *)
(* interrupt, the move to Paused still completes: ctrl_c_pressed is set,   *)
(* the matching tasks have been asked to cancel, and no exception leaves   *)
(* sigint_handler.                                                         *)
(***************************************************************************)
C16_PauseCallbackExceptionContained ==
    [][(ev'.op = "sigint_handler" /\ Running
            /\ ev'.callbacks = <<"pause">> /\ ev'.callback_raised) =>
        /\ ~ev'.raised
        /\ ctrl_c_pressed'
        /\ ~terminated'
        /\ \A t \in TaskIds :
              (tasks[t].status # "done" /\ MatchesAPattern(tasks[t].name))
                  => (t \in ev'.cancelled /\ tasks'[t].status = "cancelling")
    ]_vars

C16_Witness ==
    /\ ev.op = "sigint_handler"
    /\ ev.callbacks = <<"pause">>
    /\ ev.callback_raised
    /\ ~ev.raised
    /\ ctrl_c_pressed
    /\ ~_exiting
    /\ ev.cancelled # {}

\* the step handles an interrupt: the loop's SIGINT callback, or a
\* KeyboardInterrupt raised inside wait_for_resume
InterruptStep ==
    ev'.op \in {"sigint_handler", "wait_for_resume_interrupt", "exit_callback_interrupted"}

(***************************************************************************)
(* C17: once _exiting is True, every further interrupt terminates the      *)
(* process in that very step, and calls neither the pause callback nor the *)
(* exit callback nor cancels any task.                                     *)
(***************************************************************************)
C17_ExitingInterruptTerminates ==
    [][(_exiting /\ ~terminated /\ InterruptStep) =>
        /\ terminated'
        /\ ev'.callbacks = <<>>
        /\ exit_calls' = exit_calls
        /\ ev'.cancelled = {}
        /\ tasks' = tasks
    ]_vars

(***************************************************************************)
(* C18: Exiting is terminal.  Once _exiting is True no operation of the    *)
(* controller (sigint_handler, sigterm_handler, wait_for_resume, reset,    *)
(* register, unregister, constructing a SignalHandler) makes it False      *)
(* again, and the run state never goes back to Running, Paused or          *)
(* AwaitingResume.                                                         *)
(***************************************************************************)
C18_ExitingIsTerminal ==
    [][_exiting => (_exiting' /\ RunState' = "Exiting")]_vars

C18_Witness ==
    /\ ev.op = "reset"
    /\ _exiting
    /\ ~terminated
    /\ ~ctrl_c_pressed
    /\ ~waiting_for_input

(***************************************************************************)
(* C19 as stated: every change of the run state is Running to Paused,      *)
(* Paused to AwaitingResume, AwaitingResume to Running, or a move to       *)
(* Exiting; no other change is reachable.                                  *)
(***************************************************************************)
C19_OnlyAllowedTransitions ==
    [][RunState' # RunState =>
        \/ RunState = "Running" /\ RunState' = "Paused"
        \/ RunState = "Paused" /\ RunState' = "AwaitingResume"
        \/ RunState = "AwaitingResume" /\ RunState' = "Running"
        \/ RunState' = "Exiting"
    ]_vars

(***************************************************************************)
(* C19 as amended: every change of the run state is one of                 *)
(*   Running to Paused, by a first interrupt;                              *)
(*   Running or Paused to AwaitingResume, by entering wait_for_resume;     *)
(*   AwaitingResume to Paused when wait_for_resume ends and ctrl_c_pressed *)
(*     is set (to Running when it is not): only waiting_for_input is       *)
(*     cleared;                                                            *)
(*   Paused or AwaitingResume to Running, by reset or by constructing a    *)
(*     SignalHandler;                                                      *)
(*   any state to Exiting, by a second interrupt or a terminate signal.    *)
(***************************************************************************)
C19_TransitionsOfTheController ==
    [][RunState' # RunState =>
        \/ /\ RunState = "Running" /\ RunState' = "Paused"
           /\ ev'.op = "sigint_handler"
        \/ /\ RunState \in {"Running", "Paused"} /\ RunState' = "AwaitingResume"
           /\ ev'.op = "wait_for_resume"
        \/ /\ RunState = "AwaitingResume"
           /\ RunState' = (IF ctrl_c_pressed THEN "Paused" ELSE "Running")
           /\ ev'.op = "resume"
        \/ /\ RunState \in {"Paused", "AwaitingResume"} /\ RunState' = "Running"
           /\ ev'.op \in {"reset", "construct"}
        \/ /\ RunState' = "Exiting"
           /\ ev'.op \in {"sigint_handler", "wait_for_resume_interrupt", "sigterm_handler"}
    ]_vars

C19_Witness ==
    /\ ev.op = "resume"
    /\ pc = "run"
    /\ RunState = "Paused"
    /\ sigint_disposition = "handler"

\* the step ends a call of wait_for_resume by returning or raising
LeavesWaitForResume == pc # "run" /\ pc' = "run"

\* the step ends the process inside wait_for_resume, on its second-interrupt path
ExitsInsideWaitForResume ==
    /\ ev'.op \in {"wait_for_resume_interrupt", "exit_callback_returns"}
    /\ terminated'

(***************************************************************************)
(* C20 as stated: on every exit path from wait_for_resume (resume input,   *)
(* resume callback raising, second interrupt) the SIGINT handler that was  *)
(* installed at entry is installed again.                                  *)
(***************************************************************************)
C20_HandlerRestoredOnEveryPath ==
    [][(LeavesWaitForResume \/ ExitsInsideWaitForResume)
        => sigint_disposition' = original_handler]_vars

(***************************************************************************)
(* C20 as amended: whenever wait_for_resume returns or raises (resume      *)
(* input, resume callback raising, an interrupt that aborts the exit       *)
(* callback) the SIGINT handler that was installed at entry is installed   *)
(* again; when a second interrupt ends the process inside the call, the    *)
(* handler is left as wait_for_resume had set it.                          *)
(***************************************************************************)
C20_HandlerRestoredOnReturn ==
    [][/\ LeavesWaitForResume => (sigint_disposition' = original_handler /\ ~terminated')
       /\ ExitsInsideWaitForResume => sigint_disposition' = sigint_disposition
    ]_vars

C20_Witness ==
    /\ ev.op = "resume"
    /\ ev.raised
    /\ pc = "run"
    /\ ~waiting_for_input
    /\ original_handler = "handler"
    /\ sigint_disposition = "handler"

\* AwaitingResume after a pause: both flags of the loop are set and no exit
\* has begun
AwaitingResumeAfterPause ==
    ctrl_c_pressed /\ waiting_for_input /\ ~_exiting /\ ~terminated

(***************************************************************************)
(* C21: while the controller is AwaitingResume after a pause, an interrupt *)
(* cancels no task and calls no pause callback; one that reaches           *)
(* sigint_handler changes nothing at all, and an interrupt begins an exit  *)
(* only as the KeyboardInterrupt raised inside wait_for_resume.            *)
(***************************************************************************)
C21_AwaitingResumeInterruptIsRaw ==
    [][(AwaitingResumeAfterPause /\ InterruptStep) =>
        /\ NoPause
        /\ ev'.op = "sigint_handler" =>
              /\ ev'.callbacks = <<>>
              /\ <<_exiting, ctrl_c_pressed, waiting_for_input, tasks, exit_calls,
                   terminated, sigint_disposition, pc>>'
                 = <<_exiting, ctrl_c_pressed, waiting_for_input, tasks, exit_calls,
                     terminated, sigint_disposition, pc>>
        /\ (_exiting' \/ terminated') => ev'.op = "wait_for_resume_interrupt"
    ]_vars

C21_Witness ==
    /\ ev.op = "sigint_handler"
    /\ AwaitingResumeAfterPause
    /\ pc = "input_no_install"
    /\ ev.current # NoTask
    /\ tasks[ev.current].status = "pending"
    /\ MatchesAPattern(tasks[ev.current].name)

\* the step handles an interrupt as a first one: the matching tasks are asked
\* to cancel, the pause callback (if any) is called, the controller is Paused
HandledAsFirstInterrupt ==
    /\ ctrl_c_pressed'
    /\ ~terminated'
    /\ ~_exiting'
    /\ ev'.callbacks = (IF config.pause_callback THEN <<"pause">> ELSE <<>>)
    /\ \A t \in TaskIds :
          IF tasks[t].status # "done" /\ MatchesAPattern(tasks[t].name)
              THEN t \in ev'.cancelled /\ tasks'[t].status = "cancelling"
          ELSE t \notin ev'.cancelled /\ tasks'[t] = tasks[t]

(***************************************************************************)
(* C22: after wait_for_resume has returned through the resume path and     *)
(* reset() has been called, the controller is Running again                *)
(* (ctrl_c_pressed and waiting_for_input both False), and the next         *)
(* interrupt is handled as a first interrupt, not as an exit.              *)
(***************************************************************************)
C22_ResetReturnsToRunning ==
    [][/\ (ev'.op = "reset" /\ ev'.after_resume)
            => (~ctrl_c_pressed' /\ ~waiting_for_input' /\ RunState' = "Running")
       /\ (ev.op = "reset" /\ ev.after_resume /\ ev'.op = "sigint_handler")
            => HandledAsFirstInterrupt
    ]_vars

(***************************************************************************)
(* C23: when installing the signal handlers fails in register(), no        *)
(* exception reaches the caller, the run state and the flags are as        *)
(* before, the process runs on, and SIGINT is left as it was (no graceful  *)
(* pause).                                                                 *)
(***************************************************************************)
C23_RegisterFailureSwallowed ==
    [][(ev'.op = "register" /\ ev'.failed) =>
        /\ ~ev'.raised
        /\ RunState' = RunState
        /\ <<_exiting, ctrl_c_pressed, waiting_for_input, tasks, exit_calls>>'
           = <<_exiting, ctrl_c_pressed, waiting_for_input, tasks, exit_calls>>
        /\ ~terminated'
        /\ sigint_disposition' = sigint_disposition
    ]_vars

C23_Witness ==
    /\ ev.op = "register"
    /\ ev.failed
    /\ ~ev.raised
    /\ RunState = "Running"
    /\ sigint_disposition = "default"
    /\ ~terminated

\* no task of the loop has a name that contains a configured pattern
NoTaskMatches == \A t \in TaskIds : ~MatchesAPattern(tasks[t].name)

\* the first of two rapid interrupts: Running, no pause callback, no matching
\* task; it sets Paused and asks no task to cancel
FirstOfTwoPauses ==
    (RunState = "Running" /\ ~config.pause_callback /\ NoTaskMatches
        /\ ev'.op = "sigint_handler")
    => /\ RunState' = "Paused"
       /\ ev'.cancelled = {}
       /\ tasks' = tasks
       /\ ev'.callbacks = <<>>
       /\ ~terminated'

\* the second interrupt follows the first with no controller operation in
\* between
SecondOfTwo ==
    /\ ev.op = "sigint_handler"
    /\ RunState = "Paused"
    /\ ~terminated
    /\ ~config.pause_callback
    /\ NoTaskMatches
    /\ ev'.op = "sigint_handler"

(***************************************************************************)
(* C24 as stated: with no pause callback and no task name matching a       *)
(* pattern, the first of two rapid interrupts sets Paused and asks no task *)
(* to cancel, and the second, arriving before wait_for_resume is entered,  *)
(* terminates the process at once.                                         *)
(***************************************************************************)
C24_TwoRapidInterrupts ==
    [][FirstOfTwoPauses /\ (SecondOfTwo => terminated')]_vars

(***************************************************************************)
(* C24 as amended: the same, for a controller constructed with             *)
(* exit_on_second_int = True; the second interrupt calls the exit callback *)
(* if one is registered and terminates the process in the same step.       *)
(***************************************************************************)
C24_TwoRapidInterruptsWhenConfigured ==
    [][/\ FirstOfTwoPauses
       /\ (SecondOfTwo /\ config.exit_on_second_int)
            => (terminated' /\ CallsRegisteredExit /\ NoPause)
    ]_vars

C24_Witness ==
    /\ ev.op = "sigint_handler"
    /\ terminated
    /\ ctrl_c_pressed
    /\ ~waiting_for_input
    /\ ~config.pause_callback
    /\ config.exit_on_second_int
    /\ NoTaskMatches
    /\ \A t \in TaskIds : tasks[t].status = "pending"
    /\ exit_calls = 0
    /\ ~config.custom_exit_callback
    /\ sigint_disposition = "handler"

\* the step is a second interrupt delivered after a pause: handled by
\* sigint_handler while Paused, or raised in the input() of wait_for_resume
SecondInterruptAfterPause ==
    \/ ev'.op = "sigint_handler" /\ RunState = "Paused" /\ ~terminated
    \/ ev'.op = "wait_for_resume_interrupt" /\ AwaitingResumeAfterPause

\* the step ends the exit callback that a second interrupt started
ExitCallbackOver == pc = "exit_callback" /\ pc' # "exit_callback"

(***************************************************************************)
(* C25 as stated: whenever a second interrupt is delivered after a pause   *)
(* the process reaches the terminated state, whatever the tasks are doing: *)
(* the handling of that interrupt ends with the process terminated, at     *)
(* the latest when the exit callback it started is over.                   *)
(***************************************************************************)
C25_SecondInterruptTerminates ==
    [][/\ SecondInterruptAfterPause => (terminated' \/ pc' = "exit_callback")
       /\ ExitCallbackOver => terminated'
    ]_vars

(***************************************************************************)
(* C25 as amended: with exit_on_second_int set, a second interrupt handled *)
(* by sigint_handler while Paused terminates the process in that handler   *)
(* call, whatever the tasks are doing and without asking anything of them; *)
(* one raised inside wait_for_resume terminates the process when the exit  *)
(* callback returns or raises an Exception, and not when a further         *)
(* interrupt aborts that callback.                                         *)
(***************************************************************************)
C25_SecondInterruptTerminatesWhenConfigured ==
    [][/\ (ev'.op = "sigint_handler" /\ RunState = "Paused" /\ ~terminated
              /\ config.exit_on_second_int)
            => (terminated' /\ tasks' = tasks)
       /\ (ev'.op = "wait_for_resume_interrupt" /\ AwaitingResumeAfterPause)
            => ((terminated' \/ pc' = "exit_callback") /\ tasks' = tasks)
       /\ ExitCallbackOver
            => (terminated' <=> ev'.op = "exit_callback_returns")
    ]_vars

C25_Witness ==
    /\ ev.op = "sigint_handler"
    /\ terminated
    /\ ctrl_c_pressed
    /\ ~waiting_for_input
    /\ config.exit_on_second_int
    /\ \E t \in TaskIds : tasks[t].status = "cancelling"

\* the step changes History as an append or as a compaction does: the old
\* messages stay in front, or the exempt ones do, in their order
OrderPreserved ==
    \/ messages' = messages
    \/ /\ Len(messages') = Len(messages) + 1
       /\ SubSeq(messages', 1, Len(messages)) = messages
    \/ /\ Len(messages') >= 1
       /\ SubSeq(messages', 1, Len(messages') - 1) = ExemptSeq(messages)

\* a task observes the cancellation that was requested of it
CancellationObserved ==
    \E t \in TaskIds : tasks[t].status = "cancelling" /\ tasks'[t].status = "done"

(***************************************************************************)
(* C26: however a first interrupt's task cancellation interleaves with a   *)
(* step that appends to History or compacts it, current_tokens equals the  *)
(* sum of the message tokens whenever control is back with the loop, the   *)
(* order of the messages is preserved, and neither the interrupt nor the   *)
(* observation of a cancellation falls between the replacement of          *)
(* history.messages and the update of current_tokens.                      *)
(***************************************************************************)
C26_HistoryInvariantsUnderCancellation ==
    [][/\ (ctrl_c_pressed' /\ last'.op # "replaced")
             => current_tokens' = TotalTokens(messages')
       /\ OrderPreserved
       /\ (CancellationObserved \/ ev' # ev) => last.op # "replaced"
    ]_vars

(***************************************************************************)
(* C27: no operation of the controller (register, unregister, the SIGINT   *)
(* and SIGTERM handlers with their task cancellation, wait_for_resume,     *)
(* reset) changes History: history.messages and history.current_tokens are *)
(* the same after every step of the controller as before it.               *)
(***************************************************************************)
C27_ControllerLeavesHistory ==
    [][messages' = messages /\ current_tokens' = current_tokens]_vars

\* the first interrupt has cancelled a task while History holds two messages
C27_Witness ==
    /\ Len(messages) = 2
    /\ current_tokens = TotalTokens(messages)
    /\ ev.op = "sigint_handler"
    /\ ctrl_c_pressed
    /\ ev.cancelled # {}

NotEligible(m) == ~Eligible(m)

\* ms without its i-th message
WithoutAt(ms, i) == SubSeq(ms, 1, i - 1) \o SubSeq(ms, i + 1, Len(ms))

(***************************************************************************)
(* C28: a successful compaction removes exactly the candidate messages:    *)
(* History afterwards is the summary message together with every message   *)
(* that was not a candidate, a non-exempt message with empty content       *)
(* included.                                                               *)
(***************************************************************************)
C28_OnlyCandidatesRemoved ==
    [][last'.op = "compacted" =>
        \E i \in 1 .. Len(messages') :
            WithoutAt(messages', i) = SelectSeq(messages, NotEligible)
    ]_vars

(***************************************************************************)
(* C29: compaction never reorders History: after every call of             *)
(* create_procedural_memory the init and memory messages that were in      *)
(* History are there in the same relative order, with at most the new      *)
(* summary message added among them; this holds for every History and      *)
(* through any number of successive compactions.                           *)
(***************************************************************************)
C29_KeptMessagesKeepOrder ==
    [][IsCall(last') =>
        \/ ExemptSeq(messages') = ExemptSeq(messages)
        \/ \E i \in 1 .. Len(ExemptSeq(messages')) :
              WithoutAt(ExemptSeq(messages'), i) = ExemptSeq(messages)
    ]_vars

\* a second compaction has kept the summary of the first and an init message
\* appended after it
C29_Witness ==
    /\ last.op = "compacted"
    /\ Len(messages) = 3
    /\ messages[1].metadata.message_type = "memory"
    /\ messages[2].metadata.message_type = "init"
    /\ messages[3].metadata.message_type = "memory"
    /\ messages[1] # messages[3]

\* the messages (content carriers) of the candidates of ms, in History order
CandidateContents(ms) ==
    [i \in 1 .. Len(EligibleSeq(ms)) |-> EligibleSeq(ms)[i].message]

(***************************************************************************)
(* C30: a call of create_procedural_memory invokes the summarizer at most  *)
(* once, and when it does, it hands over the contents of exactly the       *)
(* candidate messages, in their History order, together with the current   *)
(* step number.                                                            *)
(***************************************************************************)
C30_SummarizerCalledOnceWithCandidates ==
    [][(IsCall(last') /\ n_steps' = n_steps) =>
        /\ last'.calls <= 1
        /\ last'.called <=> (last'.calls = 1)
        /\ last'.called =>
              /\ last'.mem0_messages = CandidateContents(messages)
              /\ last'.mem0_step = n_steps
    ]_vars

\* at step 2 the summarizer was called with two candidates of different
\* content while History held a third message that is no candidate
C30_Witness ==
    /\ last.op = "failed"
    /\ last.calls = 1
    /\ last.mem0_step = 2
    /\ Len(messages) = 3
    /\ Len(last.mem0_messages) = 2
    /\ last.mem0_messages[1] # last.mem0_messages[2]

\* sigint_handler is inside its first-interrupt path, entered while Running
HandlingFirstInterrupt ==
    pc \in {"marked", "cancelled", "pause_callback"} /\ ev.from_running

\* every unfinished task whose name contains a pattern has been asked to cancel
CancellationsRequested ==
    \A t \in TaskIds :
        (tasks[t].status # "done" /\ MatchesAPattern(tasks[t].name))
            => (tasks[t].status = "cancelling" /\ t \in ev.cancelled)

(***************************************************************************)
(* C31 as stated: on a first interrupt while Running the controller first  *)
(* requests the cancellations, then calls the pause callback, then becomes *)
(* Paused: while the pause callback runs every matching task has been      *)
(* asked to cancel, and until the handler returns the controller is not    *)
(* yet Paused.                                                             *)
(***************************************************************************)
C31_CancelThenCallbackThenPaused ==
    HandlingFirstInterrupt =>
        /\ pc = "pause_callback" => CancellationsRequested
        /\ RunState # "Paused"

(***************************************************************************)
(* C31 as amended: on a first interrupt while Running the controller first *)
(* becomes Paused (ctrl_c_pressed is set), then requests the               *)
(* cancellations, then calls the pause callback: before the cancellations  *)
(* no callback has been called, while the pause callback runs every        *)
(* matching task has been asked to cancel, and the controller is Paused    *)
(* all the while.                                                          *)
(***************************************************************************)
C31_PausedThenCancelThenCallback ==
    HandlingFirstInterrupt =>
        /\ RunState = "Paused"
        /\ pc = "marked" => (ev.cancelled = {} /\ ev.callbacks = <<>>)
        /\ pc = "cancelled" => (CancellationsRequested /\ ev.callbacks = <<>>)
        /\ pc = "pause_callback" => (CancellationsRequested /\ ev.callbacks = <<"pause">>)

\* the pause callback runs after a task has been asked to cancel
C31_Witness ==
    /\ HandlingFirstInterrupt
    /\ pc = "pause_callback"
    /\ ev.cancelled # {}
    /\ \E t \in TaskIds : tasks[t].status = "cancelling"

(***************************************************************************)
(* C32: on Windows the handler installed by register() never pauses: an    *)
(* interrupt it handles calls the exit callback (if any) and terminates    *)
(* the process, and it sets no ctrl_c_pressed, cancels no task and calls   *)
(* no pause callback.                                                      *)
(***************************************************************************)
C32_WindowsInterruptExits ==
    [][ev'.op = "windows_handler" =>
        /\ CallsRegisteredExit
        /\ terminated'
        /\ NoPause
    ]_vars

\* every message of ms is an init or a memory message
AllExempt(ms) == \A i \in 1 .. Len(ms) : Exempt(ms[i])

(***************************************************************************)
(* C33: compaction is idempotent after success: right after a successful   *)
(* compaction only init and memory messages remain, and a call of          *)
(* create_procedural_memory that follows it with no append in between      *)
(* does not call the summarizer and leaves History and current_tokens      *)
(* unchanged.                                                              *)
(***************************************************************************)
C33_CompactionIdempotent ==
    [][/\ last'.op = "compacted" => AllExempt(messages')
       /\ (last.op = "compacted" /\ IsCall(last')) =>
             /\ ~last'.called
             /\ last'.calls = 0
             /\ messages' = messages
             /\ current_tokens' = current_tokens
    ]_vars

\* a call that followed a successful compaction at once has done nothing: the
\* summary is still the last message of a History of two exempt messages
C33_Witness ==
    /\ last.op = "noop"
    /\ Len(messages) = 2
    /\ AllExempt(messages)
    /\ Last(messages).metadata.message_type = "memory"
    /\ Last(messages).message.content = "summary text"
    /\ messages[1].message.content # "summary text"

\* the memory messages of ms, in order
MemorySeq(ms) == SelectSeq(ms, LAMBDA m : m.metadata.message_type = "memory")

\* number of positions of ms that hold the message m
Occurrences(m, ms) == Cardinality({i \in 1 .. Len(ms) : ms[i] = m})

(***************************************************************************)
(* C34: each successful compaction adds exactly one memory message to      *)
(* History and leaves every init and memory message that was there in      *)
(* place and unmodified (they are the first messages of History            *)
(* afterwards); earlier summaries are neither merged nor summarized again, *)
(* so k successful compactions add exactly k memory messages.              *)
(***************************************************************************)
C34_OneMoreMemoryMessage ==
    [][last'.op = "compacted" =>
        /\ Len(MemorySeq(messages')) = Len(MemorySeq(messages)) + 1
        /\ SubSeq(messages', 1, Len(ExemptSeq(messages))) = ExemptSeq(messages)
        /\ \A i \in 1 .. Len(messages) :
              Exempt(messages[i]) =>
                  Occurrences(messages[i], messages') >= Occurrences(messages[i], messages)
        /\ \A i \in 1 .. Len(last'.mem0_messages) :
              \A j \in 1 .. Len(messages) :
                  messages[j].metadata.message_type = "memory"
                      => last'.mem0_messages[i] # messages[j].message
    ]_vars

\* the second successful compaction has left the summary of the first where
\* it was and added its own
C34_Witness ==
    /\ last.op = "compacted"
    /\ Len(messages) = 2
    /\ messages[1].metadata = [tokens |-> 15, message_type |-> "memory"]
    /\ messages[2].metadata = [tokens |-> 0, message_type |-> "memory"]
    /\ Len(last.to_process) = 3

(***************************************************************************)
(* C35: with exit_on_second_int = False a second interrupt while Paused    *)
(* (not waiting for input) calls no exit callback and does not end the     *)
(* process: it is handled like a first interrupt again (the matching tasks *)
(* are asked to cancel, the pause callback is called again) and the        *)
(* controller stays Paused.                                                *)
(***************************************************************************)
C35_SecondInterruptPausesAgain ==
    [][(/\ ev'.op = "sigint_handler"
        /\ RunState = "Paused"
        /\ ~terminated
        /\ ~config.exit_on_second_int) =>
        /\ HandledAsFirstInterrupt
        /\ exit_calls' = exit_calls
        /\ RunState' = "Paused"
    ]_vars

\* a second interrupt right after the first has called the pause callback
\* again and cancelled a task, with no exit
C35_Witness ==
    /\ ~config.exit_on_second_int
    /\ config.custom_exit_callback
    /\ ev.op = "sigint_handler"
    /\ ~ev.from_running
    /\ ev.callbacks = <<"pause">>
    /\ ev.cancelled # {}
    /\ RunState = "Paused"
    /\ exit_calls = 0
    /\ ~terminated

\* the window after wait_for_resume has returned through the resume path of
\* a pause and before anything else of the controller has happened
AfterResumeBeforeReset ==
    /\ ev.op = "resume"
    /\ ~ev.raised
    /\ ctrl_c_pressed
    /\ ~_exiting
    /\ ~terminated

\* the step is handled as a second interrupt: exit, nothing of a pause
HandledAsExit ==
    /\ terminated'
    /\ CallsRegisteredExit
    /\ NoPause

(***************************************************************************)
(* C36 as stated: wait_for_resume does not clear ctrl_c_pressed; an        *)
(* interrupt that arrives after it has returned through the resume path    *)
(* and before reset() is handled as a second interrupt (exit) and not as a *)
(* new pause; only reset() clears ctrl_c_pressed.                          *)
(***************************************************************************)
C36_InterruptBeforeResetExits ==
    [][/\ ev'.op = "resume" => ctrl_c_pressed' = ctrl_c_pressed
       /\ (AfterResumeBeforeReset /\ ev'.op = "sigint_handler") => HandledAsExit
       /\ (ctrl_c_pressed /\ ~ctrl_c_pressed') => ev'.op = "reset"
    ]_vars

(***************************************************************************)
(* C36 as amended: wait_for_resume does not clear ctrl_c_pressed; an       *)
(* interrupt that arrives after it has returned through the resume path    *)
(* and before reset() is never handled as a first interrupt from Running:  *)
(* it is ignored when waiting_for_input was left set, it is handled as a   *)
(* second interrupt (exit) when exit_on_second_int is set, and it pauses   *)
(* again otherwise; only reset() or the construction of a controller on    *)
(* the loop clears ctrl_c_pressed.                                         *)
(***************************************************************************)
C36_InterruptBeforeResetIsSecond ==
    [][/\ ev'.op = "resume" => ctrl_c_pressed' = ctrl_c_pressed
       /\ (AfterResumeBeforeReset /\ ev'.op = "sigint_handler") =>
             /\ ~ev'.from_running
             /\ IF waiting_for_input
                    THEN /\ NoPause
                         /\ ev'.callbacks = <<>>
                         /\ ~terminated'
                         /\ RunState' = RunState
                ELSE IF config.exit_on_second_int
                    THEN HandledAsExit
                ELSE HandledAsFirstInterrupt /\ exit_calls' = exit_calls
       /\ (ctrl_c_pressed /\ ~ctrl_c_pressed') => ev'.op \in {"reset", "construct"}
    ]_vars

\* the interrupt in the window has ended the process through the exit callback
C36_Witness ==
    /\ ev.op = "sigint_handler"
    /\ ev.callbacks = <<"exit">>
    /\ terminated
    /\ ctrl_c_pressed
    /\ ~waiting_for_input
    /\ original_handler = "handler"
    /\ exit_calls = 1

\* no call of wait_for_resume is in progress
OutsideWaitForResume == pc \notin {"input", "input_no_install", "exit_callback"}

(***************************************************************************)
(* C37: waiting_for_input is True only while a call of wait_for_resume is  *)
(* in progress: once wait_for_resume has returned or raised, the flag is   *)
(* False again, also when installing the previous SIGINT handler again     *)
(* fails during cleanup.                                                   *)
(***************************************************************************)
C37_WaitingOnlyInsideWaitForResume == OutsideWaitForResume => ~waiting_for_input

(***************************************************************************)
(* C38: the run state is shared: constructing a SignalHandler on the loop  *)
(* sets ctrl_c_pressed and waiting_for_input to False whatever they were   *)
(* (a controller that was Paused or AwaitingResume on that loop is         *)
(* un-paused) and leaves _exiting as it was; and once an exit has begun,   *)
(* the next interrupt of any controller, one constructed afterwards        *)
(* included, terminates the process without any callback.                  *)
(***************************************************************************)
C38_RunStateIsShared ==
    [][/\ ev'.op = "construct" =>
             /\ ~ctrl_c_pressed'
             /\ ~waiting_for_input'
             /\ _exiting' = _exiting
       /\ (/\ ev.op = "construct"
           /\ _exiting
           /\ ~terminated
           /\ InterruptStep) =>
             /\ terminated'
             /\ ev'.callbacks = <<>>
             /\ exit_calls' = exit_calls
             /\ NoPause
    ]_vars

\* a controller with callbacks has been constructed after an exit had begun
\* under an earlier one: the exit flag is still set
C38_Witness ==
    /\ ev.op = "construct"
    /\ _exiting
    /\ ~terminated
    /\ exit_calls = 1
    /\ config.pause_callback
    /\ config.custom_exit_callback
    /\ ~ctrl_c_pressed
    /\ ~waiting_for_input

\* the patterns used when the caller gives none
TheDefaultPatterns == <<"step", "multi_act", "get_next_action">>

\* name contains one of the default patterns
MatchesADefault(name) ==
    \E k \in DOMAIN TheDefaultPatterns : Contains(name, TheDefaultPatterns[k])

(***************************************************************************)
(* C39: the set of interruptible-task patterns is never empty: a           *)
(* controller constructed with interruptible_task_patterns = None or with  *)
(* an empty list has the default patterns step, multi_act and              *)
(* get_next_action, so the first interrupt after such a construction asks  *)
(* the unfinished tasks matching the defaults to cancel.                   *)
(***************************************************************************)
C39_PatternsNeverEmpty ==
    [][/\ Len(config'.interruptible_task_patterns) > 0
       /\ (ev'.op = "construct" /\ (ev'.given.isNone \/ ev'.given.list = <<>>))
             => config'.interruptible_task_patterns = TheDefaultPatterns
       /\ (/\ ev.op = "construct"
           /\ ev.given.isNone \/ ev.given.list = <<>>
           /\ Running
           /\ ev'.op = "sigint_handler") =>
             ev'.cancelled = {t \in TaskIds : tasks[t].status # "done"
                                              /\ MatchesADefault(tasks[t].name)}
    ]_vars

\* a controller was constructed with an empty pattern list while a task
\* whose name contains a default pattern is running
C39_Witness ==
    /\ ev.op = "construct"
    /\ ~ev.given.isNone
    /\ ev.given.list = <<>>
    /\ config.interruptible_task_patterns = TheDefaultPatterns
    /\ \E t \in TaskIds : tasks[t].status = "pending" /\ tasks[t].name = "footsteps"

====
